---- MODULE Spec2Model ----
(***************************************************************************)
(* Model of core/comm/creds.go: the server transport credentials           *)
(* (serverCreds) that share one *tls.Config with their creator, and the    *)
(* DynamicClientCredentials that derive a fresh configuration from a base  *)
(* configuration and an ordered list of TLSOptions on every use.           *)
(*                                                                         *)
(* Pointers are references into `heap`; a *tls.Config is a reference, a    *)
(* tls.Config is the record stored under it.  An optional value is the     *)
(* empty set (nil) or a singleton.                                         *)
(***************************************************************************)
EXTENDS Integers, Sequences, FiniteSets, TLC

VARIABLES
    heap,        \* reference -> tls.Config: every live tls.Config object
    creds,       \* the serverCreds values in existence (original first, then clones)
    logEntries,  \* what the FabricLogger has written, oldest first
    dtc,         \* the DynamicClientCredentials: [TLSConfig: reference, TLSOptions: list]
    tlsCreds,    \* the static credentials returned by DynamicClientCredentials.Clone
    lastName,    \* the argument of the latest successful OverrideServerName, if any
    procs,       \* per goroutine: the position and locals of a running latestConfig
    last         \* the latest call: its name, receiver, inputs and results

vars == <<heap, creds, logEntries, dtc, tlsCreds, lastName, procs, last>>

---------------------------------------------------------------------------
(* Bounds of the model *)

MaxCreds == 2      \* serverCreds values in existence (original + clones)
MaxLog == 2        \* log entries kept
MaxOpts == 2       \* length of the TLSOptions list
MaxClones == 1     \* static credentials cloned from the dynamic adapter
NumProcs == 2      \* goroutines running ClientHandshake concurrently

---------------------------------------------------------------------------
(* Values *)

Nil == "nil"
None == {}
Some(v) == {v}

VersionTLS12 == 771
Versions == {VersionTLS12 - 1, VersionTLS12}

alpnProtoStr == <<"h2">>
ProtoLists == {alpnProtoStr, <<"http/1.1">>}
Certs == {"cert1", "cert2"}
Names == {"host-a", "host-b"}
Addrs == {"10.0.0.1:7050", "10.0.0.2:7050"}

ClientHandshakeNotImplError ==
    "core/comm: Client handshakesare not implemented with serverCreds"
OverrrideHostnameNotSupportedError ==
    "core/comm: OverrideServerName is not supported"
ServerHandshakeNotImplementedError ==
    "core/comm: server handshakes are not implemented with clientCreds"

Fields == {"NextProtos", "MinVersion", "MaxVersion", "Certificates", "ServerName"}

FieldValues(f) ==
    CASE f = "NextProtos" -> ProtoLists
      [] f = "MinVersion" -> Versions
      [] f = "MaxVersion" -> Versions
      [] f = "Certificates" -> Certs
      [] f = "ServerName" -> Names

\* the fixed result of a call that returns nothing of a kind
NoRet == [conn |-> None, auth |-> None, err |-> Nil]

Call(op, recv, arg, ret, used, calls) ==
    [op |-> op, recv |-> recv, arg |-> arg, ret |-> ret, used |-> used, calls |-> calls]

\* the same for Info, whose result is a credentials.ProtocolInfo
InfoCall(op, recv, info, used, calls) ==
    [op |-> op, recv |-> recv, arg |-> None, ret |-> NoRet, used |-> used,
     calls |-> calls, info |-> info]

---------------------------------------------------------------------------
(* The heap *)

SharedRef == 1     \* the object the caller hands to NewServerTransportCredentials
BaseRef == 2       \* the object the caller stores in DynamicClientCredentials.TLSConfig

NewRef(h) == CHOOSE r \in 1..(Cardinality(DOMAIN h) + 1) :
                 /\ r \notin DOMAIN h
                 /\ \A q \in 1..(r - 1) : q \in DOMAIN h

Alloc(h, v) ==
    LET r == NewRef(h)
    IN  [heap |-> [x \in DOMAIN h \cup {r} |-> IF x = r THEN v ELSE h[x]], ref |-> r]

\* garbage collection: only the objects still referenced stay
Collect(h, roots) == [x \in DOMAIN h \cap roots |-> h[x]]

---------------------------------------------------------------------------
(* The TLS library: a handshake over a raw connection.  The peer is the    *)
(* remote end: its address, the one protocol version it speaks and whether *)
(* it rejects this side's certificate.                                     *)

Peers == [addr : Addrs, version : Versions, rejects : {{}, {"cert1"}}]

Handshake(cfg, peer) ==
    IF peer.version < cfg.MinVersion \/ peer.version > cfg.MaxVersion
    THEN "tls: protocol version not supported"
    ELSE IF cfg.Certificates \in peer.rejects
    THEN "remote error: tls: bad certificate"
    ELSE Nil

\* the remote servers the client dials
RemoteServers == {p \in Peers : p.addr = "10.0.0.1:7050" /\ p.rejects = {}}

SecuredConn(peer) == [RemoteAddr |-> peer.addr]
TLSInfo(peer) == [State |-> [Version |-> peer.version]]

---------------------------------------------------------------------------
(* Server side *)

\* as grpc's own credentials do: the adapter keeps a copy of the configuration
NewServerTransportCredentialsCopying(h, serverConfig, logger) ==
    LET a == Alloc(h, [h[serverConfig] EXCEPT !.NextProtos = alpnProtoStr,
                                              !.MinVersion = VersionTLS12,
                                              !.MaxVersion = VersionTLS12])
    IN  [heap |-> a.heap, creds |-> [serverConfig |-> a.ref, logger |-> logger]]

\* the maximum version left as the caller set it
NewServerTransportCredentialsMinOnly(h, serverConfig, logger) ==
    [heap |-> [h EXCEPT ![serverConfig] =
                  [@ EXCEPT !.NextProtos = alpnProtoStr,
                            !.MinVersion = VersionTLS12]],
     creds |-> [serverConfig |-> serverConfig, logger |-> logger]]

NewServerTransportCredentials(h, serverConfig, logger) ==
    [heap |-> [h EXCEPT ![serverConfig] =
                  [@ EXCEPT !.NextProtos = alpnProtoStr,
                            !.MinVersion = VersionTLS12,
                            !.MaxVersion = VersionTLS12]],
     creds |-> [serverConfig |-> serverConfig, logger |-> logger]]

scClientHandshake(h, sc) ==
    [heap |-> h, ret |-> [conn |-> None, auth |-> None, err |-> ClientHandshakeNotImplError]]

\* return conn, nil, err: the connection handed back although the handshake failed
scServerHandshakeKeepsConn(h, sc, rawConn) ==
    LET err == Handshake(h[sc.serverConfig], rawConn)
    IN  [ret |-> [conn |-> Some(SecuredConn(rawConn)),
                  auth |-> IF err # Nil THEN None ELSE Some(TLSInfo(rawConn)),
                  err |-> err],
         log |-> IF err # Nil /\ sc.logger # Nil
                 THEN <<[remoteAddress |-> rawConn.addr, err |-> err]>>
                 ELSE <<>>,
         calls |-> <<"Handshake">>,
         used |-> Some(h[sc.serverConfig])]

scServerHandshake(h, sc, rawConn) ==
    LET err == Handshake(h[sc.serverConfig], rawConn)
    IN  IF err # Nil
        THEN [ret |-> [conn |-> None, auth |-> None, err |-> err],
              log |-> IF sc.logger # Nil
                      THEN <<[remoteAddress |-> rawConn.addr, err |-> err]>>
                      ELSE <<>>,
              calls |-> <<"Handshake">>,
              used |-> Some(h[sc.serverConfig])]
        ELSE [ret |-> [conn |-> Some(SecuredConn(rawConn)),
                       auth |-> Some(TLSInfo(rawConn)),
                       err |-> Nil],
              log |-> <<>>,
              calls |-> <<"Handshake">>,
              used |-> Some(h[sc.serverConfig])]

scInfo == [SecurityProtocol |-> "tls", SecurityVersion |-> "1.2"]

\* a copy of the struct, without going through the constructor
scCloneBare(h, sc) == [heap |-> h, creds |-> sc]

scClone(h, sc) == NewServerTransportCredentials(h, sc.serverConfig, sc.logger)

\* the name written to the shared configuration, as the client adapter does
scOverrideServerNameSets(h, sc, name) ==
    [heap |-> [h EXCEPT ![sc.serverConfig].ServerName = name], err |-> Nil]

scOverrideServerName(h, sc, name) ==
    [heap |-> h, err |-> OverrrideHostnameNotSupportedError]

---------------------------------------------------------------------------
(* Client side *)

\* A TLSOption is a func(*tls.Config): here, one that assigns fields of the
\* configuration it is handed.  It is the record of the fields it assigns.
TLSOptionSet ==
    { [ServerName |-> "host-b"],
      [Certificates |-> "cert2"],
      [ServerName |-> "host-a", Certificates |-> "cert1"] }

OptionLists == UNION { [1..n -> TLSOptionSet] : n \in 0..MaxOpts }

\* tlsOption(tlsConfigCopy)
applyOption(h, tlsOption, ref) ==
    [h EXCEPT ![ref] = [f \in Fields |->
                           IF f \in DOMAIN tlsOption THEN tlsOption[f] ELSE @[f]]]

\* tlsConfigCopy := dtc.TLSConfig: the same object, no copy
tlsConfigShare(h, ref) == [heap |-> h, ref |-> ref]

\* dtc.TLSConfig.Clone(): a new object holding a copy
tlsConfigClone(h, ref) == Alloc(h, h[ref])

\* the options applied last to first
RECURSIVE rangeOptionsReversed(_, _, _, _)
rangeOptionsReversed(h, opts, ref, i) ==
    IF i > Len(opts)
    THEN [heap |-> h, calls |-> <<>>]
    ELSE LET j == Len(opts) - i + 1
             r == rangeOptionsReversed(applyOption(h, opts[j], ref), opts, ref, i + 1)
         IN  [heap |-> r.heap, calls |-> <<j>> \o r.calls]

\* for _, tlsOption := range opts { tlsOption(tlsConfigCopy) }, from index i on;
\* calls lists the options invoked, in the order of their invocation
RECURSIVE rangeOptions(_, _, _, _)
rangeOptions(h, opts, ref, i) ==
    IF i > Len(opts)
    THEN [heap |-> h, calls |-> <<>>]
    ELSE LET r == rangeOptions(applyOption(h, opts[i], ref), opts, ref, i + 1)
         IN  [heap |-> r.heap, calls |-> <<i>> \o r.calls]

\* the options applied to the base itself
latestConfigInPlace(h, d) ==
    LET r == rangeOptions(h, d.TLSOptions, d.TLSConfig, 1)
    IN  [heap |-> r.heap, ref |-> d.TLSConfig, calls |-> r.calls]

latestConfig(h, d) ==
    LET c == tlsConfigClone(h, d.TLSConfig)
        r == rangeOptions(c.heap, d.TLSOptions, c.ref, 1)
    IN  [heap |-> r.heap, ref |-> c.ref, calls |-> r.calls]

\* credentials.NewTLS(c): a static credential holding the configuration it is given
NewTLS(ref) == [config |-> ref]

\* tlsCreds.ClientHandshake: the handshake with the held configuration
tlsClientHandshake(h, tc, rawConn) ==
    LET err == Handshake(h[tc.config], rawConn)
    IN  [ret |-> IF err # Nil
                 THEN [conn |-> None, auth |-> None, err |-> err]
                 ELSE [conn |-> Some(SecuredConn(rawConn)),
                       auth |-> Some(TLSInfo(rawConn)),
                       err |-> Nil],
         used |-> Some(h[tc.config])]

dtcClientHandshake(h, d, rawConn) ==
    LET lc == latestConfig(h, d)
        hs == tlsClientHandshake(lc.heap, NewTLS(lc.ref), rawConn)
    IN  [heap |-> lc.heap, ret |-> hs.ret, used |-> hs.used, calls |-> lc.calls]

dtcServerHandshake(h, d) ==
    [heap |-> h,
     ret |-> [conn |-> None, auth |-> None, err |-> ServerHandshakeNotImplementedError]]

\* tlsCreds.Info: the protocol descriptor of the held configuration
tlsInfo(h, tc) ==
    [SecurityProtocol |-> "tls", SecurityVersion |-> "1.2",
     ServerName |-> h[tc.config].ServerName]

dtcInfo(h, d) ==
    LET lc == latestConfig(h, d)
    IN  [heap |-> lc.heap, info |-> tlsInfo(lc.heap, NewTLS(lc.ref)),
         used |-> Some(lc.heap[lc.ref]), calls |-> lc.calls]

\* credentials.NewTLS(dtc.TLSConfig): the credential bound to the base
dtcCloneOfBase(h, d) == [heap |-> h, creds |-> NewTLS(d.TLSConfig), calls |-> <<>>]

dtcClone(h, d) ==
    LET lc == latestConfig(h, d)
    IN  [heap |-> lc.heap, creds |-> NewTLS(lc.ref), calls |-> lc.calls]

\* the name written to a copy of the base that is then dropped
dtcOverrideServerNameOnCopy(h, d, name) == [heap |-> h, err |-> Nil]

dtcOverrideServerName(h, d, name) ==
    [heap |-> [h EXCEPT ![d.TLSConfig].ServerName = name], err |-> Nil]

---------------------------------------------------------------------------
(* The references the program still holds *)

Roots(cs, d, tcs, ps) ==
    {SharedRef, d.TLSConfig}
        \cup {cs[i].serverConfig : i \in DOMAIN cs}
        \cup {tcs[i].config : i \in DOMAIN tcs}
        \cup {ps[p].tlsConfigCopy : p \in {q \in DOMAIN ps : ps[q].pc = "loop"}}

---------------------------------------------------------------------------
(* Initial states: the adapters just constructed *)

\* configurations a caller may hand to NewServerTransportCredentials
CallerConfigs ==
    { [NextProtos |-> <<"http/1.1">>, MinVersion |-> VersionTLS12 - 1,
       MaxVersion |-> VersionTLS12 - 1, Certificates |-> "cert1", ServerName |-> "host-a"],
      [NextProtos |-> alpnProtoStr, MinVersion |-> VersionTLS12 - 1,
       MaxVersion |-> VersionTLS12, Certificates |-> "cert2", ServerName |-> "host-a"] }

Loggers == {Nil, "logger"}

\* base configurations a caller may store in DynamicClientCredentials.TLSConfig
BaseConfigs ==
    { [NextProtos |-> alpnProtoStr, MinVersion |-> VersionTLS12,
       MaxVersion |-> VersionTLS12, Certificates |-> c, ServerName |-> n]
        : c \in Certs, n \in Names }

IdleProc == [pc |-> "idle", tlsConfigCopy |-> 0, rng |-> <<>>, i |-> 0,
             start |-> None, result |-> None, err |-> Nil, overlap |-> FALSE]

Construct(serverConfig, logger, base, opts) ==
    LET h0 == [r \in {SharedRef, BaseRef} |-> IF r = SharedRef THEN serverConfig ELSE base]
        n == NewServerTransportCredentials(h0, SharedRef, logger)
    IN  /\ heap = n.heap
        /\ creds = <<n.creds>>
        /\ logEntries = <<>>
        /\ dtc = [TLSConfig |-> BaseRef, TLSOptions |-> opts]
        /\ tlsCreds = <<>>
        /\ lastName = None
        /\ procs = [p \in 1..NumProcs |-> IdleProc]
        /\ last = Call("new", 0, None, NoRet, None, <<>>)

DefaultServerConfig == CHOOSE c \in CallerConfigs : c.Certificates = "cert1"
DefaultBase == CHOOSE c \in BaseConfigs : c.Certificates = "cert1" /\ c.ServerName = "host-a"

Live(h) == Collect(h, Roots(creds', dtc', tlsCreds', procs'))

---------------------------------------------------------------------------
(* Server side: the calls *)

sc_ClientHandshake(i) ==
    LET r == scClientHandshake(heap, creds[i])
    IN  /\ last' = Call("sc.ClientHandshake", i, None, r.ret, None, <<>>)
        /\ UNCHANGED <<creds, logEntries, dtc, tlsCreds, lastName, procs>>
        /\ heap' = Live(r.heap)

sc_ServerHandshake(i, rawConn) ==
    LET r == scServerHandshake(heap, creds[i], rawConn)
    IN  /\ Len(logEntries) + Len(r.log) <= MaxLog
        /\ logEntries' = logEntries \o r.log
        /\ last' = Call("sc.ServerHandshake", i, Some(rawConn), r.ret, r.used, r.calls)
        /\ UNCHANGED <<heap, creds, dtc, tlsCreds, lastName, procs>>

sc_Info(i) ==
    /\ last' = InfoCall("sc.Info", i, scInfo, None, <<>>)
    /\ UNCHANGED <<heap, creds, logEntries, dtc, tlsCreds, lastName, procs>>

sc_Clone(i) ==
    LET r == scClone(heap, creds[i])
    IN  /\ Len(creds) < MaxCreds
        /\ creds' = Append(creds, r.creds)
        /\ last' = Call("sc.Clone", i, None, NoRet, Some(heap[SharedRef]), <<>>)
        /\ UNCHANGED <<logEntries, dtc, tlsCreds, lastName, procs>>
        /\ heap' = Live(r.heap)

sc_OverrideServerName(i, name) ==
    LET r == scOverrideServerName(heap, creds[i], name)
    IN  /\ last' = Call("sc.OverrideServerName", i, Some(name),
                        [conn |-> None, auth |-> None, err |-> r.err], None, <<>>)
        /\ UNCHANGED <<creds, logEntries, dtc, tlsCreds, lastName, procs>>
        /\ heap' = Live(r.heap)

\* the owner of the shared configuration assigns one of its fields
MutableFields == {"NextProtos", "MinVersion", "MaxVersion", "Certificates"}

ExternalMutate(f, v) ==
    /\ heap' = [heap EXCEPT ![SharedRef][f] = v]
    /\ last' = Call("mutate", 0, Some(f), NoRet, None, <<>>)
    /\ UNCHANGED <<creds, logEntries, dtc, tlsCreds, lastName, procs>>

---------------------------------------------------------------------------
(* Client side: the calls, one at a time *)

dtc_latestConfig ==
    LET lc == latestConfig(heap, dtc)
    IN  /\ last' = Call("dtc.latestConfig", 0, None, NoRet, Some(lc.heap[lc.ref]), lc.calls)
        /\ UNCHANGED <<creds, logEntries, dtc, tlsCreds, lastName, procs>>
        /\ heap' = Live(lc.heap)

dtc_ClientHandshake(rawConn) ==
    LET r == dtcClientHandshake(heap, dtc, rawConn)
    IN  /\ last' = Call("dtc.ClientHandshake", 0, Some(rawConn), r.ret, r.used, r.calls)
        /\ UNCHANGED <<creds, logEntries, dtc, tlsCreds, lastName, procs>>
        /\ heap' = Live(r.heap)

dtc_ServerHandshake ==
    LET r == dtcServerHandshake(heap, dtc)
    IN  /\ last' = Call("dtc.ServerHandshake", 0, None, r.ret, None, <<>>)
        /\ UNCHANGED <<creds, logEntries, dtc, tlsCreds, lastName, procs>>
        /\ heap' = Live(r.heap)

dtc_Info ==
    LET r == dtcInfo(heap, dtc)
    IN  /\ last' = InfoCall("dtc.Info", 0, r.info, r.used, r.calls)
        /\ UNCHANGED <<creds, logEntries, dtc, tlsCreds, lastName, procs>>
        /\ heap' = Live(r.heap)

dtc_Clone ==
    LET r == dtcClone(heap, dtc)
    IN  /\ Len(tlsCreds) < MaxClones
        /\ tlsCreds' = Append(tlsCreds, r.creds)
        /\ last' = Call("dtc.Clone", 0, None, NoRet, Some(r.heap[r.creds.config]), r.calls)
        /\ UNCHANGED <<creds, logEntries, dtc, lastName, procs>>
        /\ heap' = Live(r.heap)

dtc_OverrideServerName(name) ==
    LET r == dtcOverrideServerName(heap, dtc, name)
    IN  /\ lastName' = IF r.err = Nil THEN Some(name) ELSE lastName
        /\ last' = Call("dtc.OverrideServerName", 0, Some(name),
                        [conn |-> None, auth |-> None, err |-> r.err], None, <<>>)
        /\ UNCHANGED <<creds, logEntries, dtc, tlsCreds, procs>>
        /\ heap' = Live(r.heap)

\* the owner of the adapter assigns the exported TLSOptions field: the list
\* with an option appended, prepended or dropped
NextOptionLists(opts) ==
    {l \in {Append(opts, o) : o \in TLSOptionSet} \cup {<<o>> \o opts : o \in TLSOptionSet}
        : Len(l) <= MaxOpts}
      \cup (IF opts = <<>> THEN {} ELSE {Tail(opts), SubSeq(opts, 1, Len(opts) - 1)})

SetTLSOptions(opts) ==
    /\ opts \in NextOptionLists(dtc.TLSOptions)
    /\ dtc' = [dtc EXCEPT !.TLSOptions = opts]
    /\ last' = Call("setOptions", 0, None, NoRet, None, <<>>)
    /\ UNCHANGED <<heap, creds, logEntries, tlsCreds, lastName, procs>>

\* a handshake through a credential that dtc.Clone returned
tls_ClientHandshake(i, rawConn) ==
    LET r == tlsClientHandshake(heap, tlsCreds[i], rawConn)
    IN  /\ last' = Call("tls.ClientHandshake", i, Some(rawConn), r.ret, r.used, <<>>)
        /\ UNCHANGED <<heap, creds, logEntries, dtc, tlsCreds, lastName, procs>>

---------------------------------------------------------------------------
(* Client side: ClientHandshake calls running concurrently, one goroutine  *)
(* each, a step per statement of latestConfig                              *)

\* tlsConfigCopy := dtc.TLSConfig.Clone(); the range expression is evaluated once
hs_Begin(p) ==
    LET c == tlsConfigClone(heap, dtc.TLSConfig)
    IN  /\ procs[p].pc \in {"idle", "done"}
        /\ procs' = [procs EXCEPT ![p] =
               [pc |-> "loop", tlsConfigCopy |-> c.ref, rng |-> dtc.TLSOptions, i |-> 1,
                start |-> Some(heap[dtc.TLSConfig]), result |-> None, err |-> Nil,
                overlap |-> FALSE]]
        /\ UNCHANGED <<creds, logEntries, dtc, tlsCreds, lastName, last>>
        /\ heap' = Live(c.heap)

\* one iteration of the loop: tlsOption(tlsConfigCopy)
hs_Option(p) ==
    /\ procs[p].pc = "loop"
    /\ procs[p].i <= Len(procs[p].rng)
    /\ heap' = applyOption(heap, procs[p].rng[procs[p].i], procs[p].tlsConfigCopy)
    /\ procs' = [procs EXCEPT ![p].i = @ + 1,
                              ![p].overlap = @ \/ \E q \in DOMAIN procs \ {p} :
                                                    procs[q].pc = "loop" /\ procs[q].i > 1]
    /\ UNCHANGED <<creds, logEntries, dtc, tlsCreds, lastName, last>>

\* return tlsConfigCopy; credentials.NewTLS(...).ClientHandshake(ctx, authority, rawConn)
hs_Return(p, rawConn) ==
    LET r == tlsClientHandshake(heap, NewTLS(procs[p].tlsConfigCopy), rawConn)
    IN  /\ procs[p].pc = "loop"
        /\ procs[p].i > Len(procs[p].rng)
        /\ procs' = [procs EXCEPT ![p].pc = "done", ![p].tlsConfigCopy = 0,
                                  ![p].result = r.used, ![p].err = r.ret.err]
        /\ UNCHANGED <<creds, logEntries, dtc, tlsCreds, lastName, last>>
        /\ heap' = Live(heap)

---------------------------------------------------------------------------
(* Specifications *)

\* the server adapter, its clones and the owner of the shared configuration
InitServer == \E c \in CallerConfigs, l \in Loggers : Construct(c, l, DefaultBase, <<>>)

NextServer ==
    \/ \E i \in DOMAIN creds : sc_ClientHandshake(i)
    \/ \E i \in DOMAIN creds, rawConn \in Peers : sc_ServerHandshake(i, rawConn)
    \/ \E i \in DOMAIN creds : sc_Info(i)
    \/ \E i \in DOMAIN creds : sc_Clone(i)
    \/ \E i \in DOMAIN creds, name \in Names : sc_OverrideServerName(i, name)
    \/ \E f \in MutableFields : \E v \in FieldValues(f) : ExternalMutate(f, v)

SpecServer == InitServer /\ [][NextServer]_vars

\* the dynamic client adapter, called by one goroutine at a time
InitClient ==
    \E b \in BaseConfigs, o \in OptionLists : Construct(DefaultServerConfig, Nil, b, o)

NextClient ==
    \/ dtc_latestConfig
    \/ \E rawConn \in RemoteServers : dtc_ClientHandshake(rawConn)
    \/ dtc_ServerHandshake
    \/ dtc_Info
    \/ dtc_Clone
    \/ \E name \in Names : dtc_OverrideServerName(name)
    \/ \E o \in OptionLists : SetTLSOptions(o)
    \/ \E i \in DOMAIN tlsCreds, rawConn \in RemoteServers : tls_ClientHandshake(i, rawConn)

SpecClient == InitClient /\ [][NextClient]_vars

\* the dynamic client adapter with ClientHandshake called from several goroutines
NextConc ==
    \/ \E p \in DOMAIN procs : hs_Begin(p)
    \/ \E p \in DOMAIN procs : hs_Option(p)
    \/ \E p \in DOMAIN procs, rawConn \in RemoteServers : hs_Return(p, rawConn)

InitConc == \E o \in OptionLists : Construct(DefaultServerConfig, Nil, DefaultBase, o)

SpecConc == InitConc /\ [][NextConc]_vars

\* both adapters, with the calls that change a configuration and the calls
\* of the role an adapter does not play
InitRole ==
    \E c \in CallerConfigs, l \in Loggers, b \in BaseConfigs : Construct(c, l, b, <<>>)

NextRole ==
    \/ \E i \in DOMAIN creds : sc_ClientHandshake(i)
    \/ \E i \in DOMAIN creds, name \in Names : sc_OverrideServerName(i, name)
    \/ dtc_ServerHandshake
    \/ \E i \in DOMAIN creds : sc_Clone(i)
    \/ \E f \in MutableFields : \E v \in FieldValues(f) : ExternalMutate(f, v)
    \/ \E name \in Names : dtc_OverrideServerName(name)

SpecRole == InitRole /\ [][NextRole]_vars

---------------------------------------------------------------------------
(* What the claims speak of *)

\* the options of a list that assign field f, by position
Writers(opts, f) == {i \in DOMAIN opts : f \in DOMAIN opts[i]}

MaxOf(S) == CHOOSE x \in S : \A y \in S : y <= x

\* last-writer-wins, field by field, over a base configuration
Expected(base, opts) ==
    [f \in Fields |->
        IF Writers(opts, f) = {} THEN base[f] ELSE opts[MaxOf(Writers(opts, f))][f]]

InOrder(opts) == [i \in 1..Len(opts) |-> i]

Pinned(cfg) == cfg.MinVersion = VersionTLS12 /\ cfg.MaxVersion = VersionTLS12

DerivingOps == {"dtc.latestConfig", "dtc.ClientHandshake", "dtc.Info", "dtc.Clone"}

Fails(err) == [conn |-> None, auth |-> None, err |-> err]

\* nothing but `last` changes in the step
SameState ==
    /\ heap' = heap /\ creds' = creds /\ logEntries' = logEntries
    /\ dtc' = dtc /\ tlsCreds' = tlsCreds /\ lastName' = lastName /\ procs' = procs

---------------------------------------------------------------------------
(* C1: no call of the dynamic adapter other than OverrideServerName changes *)
(* the base configuration (the object dtc.TLSConfig points to), nor which   *)
(* object is the base, whatever the TLSOptions are: a step that changes the *)
(* base is an OverrideServerName.                                           *)
C1_BaseUnchanged ==
    [][(heap'[BaseRef] # heap[BaseRef] \/ dtc'.TLSConfig # dtc.TLSConfig)
          => last'.op = "dtc.OverrideServerName"]_vars

\* a handshake whose options wrote to the derived configuration, after a Clone,
\* with the base still one of the constructed ones
C1_Witness ==
    /\ last.op = "dtc.ClientHandshake"
    /\ tlsCreds # <<>>
    /\ lastName = None
    /\ last.used # Some(heap[BaseRef])
    /\ heap[BaseRef] \in BaseConfigs

(* C2, as stated: the server name of the configuration a ClientHandshake    *)
(* uses is the last value passed to OverrideServerName, for every list of   *)
(* TLSOptions.                                                              *)
C2_Original ==
    (last.op = "dtc.ClientHandshake" /\ lastName # None)
        => \A cfg \in last.used : Some(cfg.ServerName) = lastName

(* C2, amended: it is the last value passed to OverrideServerName when no   *)
(* option of the list assigns ServerName; when one does, it is the value    *)
(* the last such option assigns.                                            *)
C2_ServerNameUnlessOption ==
    (last.op = "dtc.ClientHandshake" /\ lastName # None)
        => \A cfg \in last.used :
              LET w == Writers(dtc.TLSOptions, "ServerName")
              IN  IF w = {}
                  THEN Some(cfg.ServerName) = lastName
                  ELSE cfg.ServerName = dtc.TLSOptions[MaxOf(w)].ServerName

\* a handshake after an override, through options none of which assigns ServerName
C2_Witness ==
    /\ last.op = "dtc.ClientHandshake"
    /\ lastName = Some("host-b")
    /\ dtc.TLSOptions # <<>>
    /\ Writers(dtc.TLSOptions, "ServerName") = {}
    /\ \A cfg \in last.used : cfg.ServerName = "host-b"

(* C3: latestConfig invokes every option once, in list order, on a copy of  *)
(* the base; each field of the result holds what the last option assigning  *)
(* it assigned, or the base's value.                                        *)
C3_LastWriterWins ==
    last.op \in DerivingOps
        => /\ last.calls = InOrder(dtc.TLSOptions)
           /\ last.used = Some(Expected(heap[dtc.TLSConfig], dtc.TLSOptions))

\* two options assign the same field differently; the handshake used the second's value
C3_Witness ==
    /\ last.op = "dtc.ClientHandshake"
    /\ Len(dtc.TLSOptions) = 2
    /\ "Certificates" \in DOMAIN dtc.TLSOptions[1] \cap DOMAIN dtc.TLSOptions[2]
    /\ dtc.TLSOptions[1].Certificates # dtc.TLSOptions[2].Certificates
    /\ \A cfg \in last.used : cfg.Certificates = dtc.TLSOptions[2].Certificates

(* C4: a ServerHandshake, on the original adapter or on a clone, uses the   *)
(* shared configuration object as it is at the time of the call, and its    *)
(* outcome is the one that configuration gives.                             *)
C4_HandshakeUsesCurrent ==
    last.op = "sc.ServerHandshake"
        => /\ last.used = Some(heap[SharedRef])
           /\ \A rawConn \in last.arg : last.ret.err = Handshake(heap[SharedRef], rawConn)

\* a clone's handshake succeeds at a version only a later mutation allows
C4_Witness ==
    /\ last.op = "sc.ServerHandshake"
    /\ last.recv = 2
    /\ last.ret.err = Nil
    /\ \A rawConn \in last.arg : rawConn.version # VersionTLS12

(* C5: the calls of the role an adapter does not play return their fixed    *)
(* error, no connection and no auth info, and change nothing.               *)
C5_WrongRole ==
    [][/\ last'.op = "sc.ClientHandshake"
            => last'.ret = Fails(ClientHandshakeNotImplError) /\ SameState
       /\ last'.op = "dtc.ServerHandshake"
            => last'.ret = Fails(ServerHandshakeNotImplementedError) /\ SameState
       /\ last'.op = "sc.OverrideServerName"
            => last'.ret = Fails(OverrrideHostnameNotSupportedError) /\ SameState]_vars

\* OverrideServerName on a clone of the server adapter, the shared configuration
\* rewritten by its owner and the client's base renamed
C5_Witness ==
    /\ last.op = "sc.OverrideServerName"
    /\ last.recv = 2
    /\ ~Pinned(heap[SharedRef])
    /\ lastName # None

(* C6, as stated: the shared configuration's minimum and maximum version    *)
(* are both TLS 1.2 in every state after construction.                      *)
C6_Original == Pinned(heap[SharedRef])

(* C6, amended: they are both TLS 1.2 after construction and after every    *)
(* Clone, and no call of the adapter changes them; only the owner's writes  *)
(* to the shared object do, and they stay until the next Clone.             *)
C6_PinnedUntilMutated ==
    /\ Pinned(heap[SharedRef])
    /\ [][/\ last'.op = "sc.Clone" => Pinned(heap'[SharedRef])
          /\ last'.op # "mutate" =>
                (Pinned(heap[SharedRef]) => Pinned(heap'[SharedRef]))
          /\ last'.op \notin {"mutate", "sc.Clone"} =>
                /\ heap'[SharedRef].MinVersion = heap[SharedRef].MinVersion
                /\ heap'[SharedRef].MaxVersion = heap[SharedRef].MaxVersion]_vars

\* a Clone that found the versions different from each other and pinned them again
C6_Witness ==
    /\ last.op = "sc.Clone"
    /\ \A cfg \in last.used : cfg.MinVersion # cfg.MaxVersion
    /\ Pinned(heap[SharedRef])

(* C7: a ServerHandshake runs the handshake once; on success it returns the *)
(* secured connection and the auth info with no error and logs nothing; on  *)
(* failure it returns no connection, no auth info and the handshake's own   *)
(* error, and logs one entry with the remote address if it has a logger,    *)
(* nothing otherwise.                                                       *)
C7_TwoOutcomes ==
    [][last'.op = "sc.ServerHandshake" =>
         \A rawConn \in last'.arg :
            LET sc == creds[last'.recv]
                err == Handshake(heap[sc.serverConfig], rawConn)
            IN  /\ last'.calls = <<"Handshake">>
                /\ err = Nil =>
                      /\ last'.ret = [conn |-> Some(SecuredConn(rawConn)),
                                      auth |-> Some(TLSInfo(rawConn)), err |-> Nil]
                      /\ logEntries' = logEntries
                /\ err # Nil =>
                      /\ last'.ret = Fails(err)
                      /\ logEntries' =
                            IF sc.logger # Nil
                            THEN Append(logEntries,
                                        [remoteAddress |-> rawConn.addr, err |-> err])
                            ELSE logEntries]_vars

\* a failed handshake with a logger: the entry is the latest of the log
C7_Witness ==
    /\ last.op = "sc.ServerHandshake"
    /\ last.ret.err # Nil
    /\ last.ret.conn = None
    /\ creds[last.recv].logger # Nil
    /\ logEntries # <<>>
    /\ \A rawConn \in last.arg :
          logEntries[Len(logEntries)].remoteAddress = rawConn.addr

(* C8: the credential Clone returns holds the configuration derived at that *)
(* moment; no later call changes it, while a later handshake of the dynamic *)
(* adapter uses the configuration derived from the base and the options as  *)
(* they are then.                                                           *)
C8_CloneIsSnapshot ==
    [][/\ \A i \in DOMAIN tlsCreds :
             /\ i \in DOMAIN tlsCreds'
             /\ tlsCreds'[i] = tlsCreds[i]
             /\ heap'[tlsCreds[i].config] = heap[tlsCreds[i].config]
       /\ last'.op = "dtc.Clone" =>
             /\ Len(tlsCreds') = Len(tlsCreds) + 1
             /\ heap'[tlsCreds'[Len(tlsCreds')].config]
                   = Expected(heap[dtc.TLSConfig], dtc.TLSOptions)
       /\ last'.op = "dtc.ClientHandshake" =>
             last'.used = Some(Expected(heap[dtc.TLSConfig], dtc.TLSOptions))
       /\ last'.op = "tls.ClientHandshake" =>
             last'.used = Some(heap[tlsCreds[last'.recv].config])]_vars

\* after a Clone the name was overridden and the options changed: the dynamic
\* adapter's handshake uses another configuration than the clone holds
C8_Witness ==
    /\ last.op = "dtc.ClientHandshake"
    /\ tlsCreds # <<>>
    /\ lastName # None
    /\ \A cfg \in last.used :
          /\ cfg.ServerName # heap[tlsCreds[1].config].ServerName
          /\ cfg.Certificates # heap[tlsCreds[1].config].Certificates

(* C9: with ClientHandshake calls interleaved statement by statement, the   *)
(* copy a call works on holds the base with exactly the options that call   *)
(* has applied so far, the configuration it hands to the handshake is the   *)
(* one a lone derivation gives, and the base is not changed.                *)
C9_Isolated ==
    /\ heap[BaseRef] = DefaultBase
    /\ \A p \in DOMAIN procs :
          /\ procs[p].pc = "loop" =>
                \A base \in procs[p].start :
                   heap[procs[p].tlsConfigCopy]
                      = Expected(base, SubSeq(procs[p].rng, 1, procs[p].i - 1))
          /\ procs[p].pc = "done" =>
                \A base \in procs[p].start :
                   procs[p].result = Some(Expected(base, procs[p].rng))

\* a call returned its configuration after applying its options while another
\* call was part-way through its own
C9_Witness ==
    \E p \in DOMAIN procs :
       /\ procs[p].pc = "done"
       /\ procs[p].overlap
       /\ procs[p].result # Some(heap[BaseRef])
       /\ \E q \in DOMAIN procs \ {p} :
             /\ procs[q].pc = "loop"
             /\ procs[q].i > 1
             /\ procs[q].i <= Len(procs[q].rng)

(* C10: serverCreds.Clone sets the shared configuration's NextProtos to     *)
(* ["h2"] and its MinVersion and MaxVersion to TLS 1.2, whatever they were, *)
(* leaves its other fields, the logger and the existing adapters as they    *)
(* are, and the clone refers to the same configuration object.              *)
C10_CloneRepins ==
    [][last'.op = "sc.Clone" =>
         LET sc == creds[last'.recv]
         IN  /\ heap' = [heap EXCEPT ![sc.serverConfig] =
                           [@ EXCEPT !.NextProtos = alpnProtoStr,
                                     !.MinVersion = VersionTLS12,
                                     !.MaxVersion = VersionTLS12]]
             /\ creds' = Append(creds, [serverConfig |-> sc.serverConfig,
                                        logger |-> sc.logger])
             /\ creds'[Len(creds')].serverConfig = SharedRef
             /\ logEntries' = logEntries]_vars

\* a Clone that discarded the three values the owner had written
C10_Witness ==
    /\ last.op = "sc.Clone"
    /\ creds[Len(creds)].logger # Nil
    /\ \A cfg \in last.used :
          /\ cfg.NextProtos # alpnProtoStr
          /\ cfg.MinVersion # VersionTLS12
          /\ cfg.MaxVersion # VersionTLS12
          /\ heap[SharedRef] = [cfg EXCEPT !.NextProtos = alpnProtoStr,
                                           !.MinVersion = VersionTLS12,
                                           !.MaxVersion = VersionTLS12]

====
